---- MODULE Spec2Model ----
(***************************************************************************)
(* Model of best/__init__.py: Bayesian estimation for two groups.          *)
(*                                                                         *)
(*   make_model(data)                      the model builder               *)
(*   hdi_of_mcmc(sample_vec, cred_mass)    highest density interval        *)
(*   calculate_sample_statistics(sample_vec)                               *)
(*                                                                         *)
(* Numbers.  Observations and posterior draws are integers.  A real that   *)
(* the code computes by division is kept as the exact fraction <<num,      *)
(* den>>; np.std's result is kept by its square, the fraction <<num, den>>  *)
(* of the variance, so that multiplying it by 1000 multiplies num by       *)
(* 1000^2.  A credible mass is the fraction <<p, q>> with 0 < p < q.       *)
(*                                                                         *)
(* Calls.  A call either returns a value or raises; the outcome is the     *)
(* record [kind |-> "return", ...] or [kind |-> "raise", exc, msg, line],  *)
(* line being the source line that raised.  NoCall is "not called yet".    *)
(***************************************************************************)
EXTENDS Integers, Sequences, FiniteSets

VARIABLES
    data,        \* the dataset dict: its entries in insertion order
    call,        \* last make_model call: its argument and its outcome
    prev_call,   \* the make_model call before that
    sample_vec,  \* the posterior sample handed to the summarizer
    cred_mass,   \* credible mass of the last hdi_of_mcmc call
    hdi,         \* outcome of the last hdi_of_mcmc call
    locals,      \* local variables of that call when it returned
    stats        \* outcome of the last calculate_sample_statistics call

vars == <<data, call, prev_call, sample_vec, cred_mass, hdi, locals, stats>>

\* ------------------------------------------------------------------ bounds
MaxSamples == 4     \* longest posterior sample
MaxDraw == 3        \* draws are 0..MaxDraw
MaxDen == 4         \* credible masses p/q with q <= MaxDen
MaxGroupLen == 2    \* longest array of observations of one group
MaxObs == 1         \* observations are 0..MaxObs

NoCall == [kind |-> "none"]

Raise(exc, msg, line) == [kind |-> "raise", exc |-> exc, msg |-> msg, line |-> line]

\* all sequences over S of length at most n
RECURSIVE SeqsUpTo(_, _)
SeqsUpTo(S, n) ==
    IF n = 0 THEN {<<>>}
    ELSE LET shorter == SeqsUpTo(S, n - 1)
         IN  shorter \cup {Append(s, x) : s \in {t \in shorter : Len(t) = n - 1}, x \in S}

RECURSIVE np_sum(_)
np_sum(s) == IF s = <<>> THEN 0 ELSE Head(s) + np_sum(Tail(s))

\* ------------------------------------------------------------- numpy helpers
\* np.sort: ascending, a new array
RECURSIVE SortedInsert(_, _)
SortedInsert(x, s) ==
    IF s = <<>> THEN <<x>>
    ELSE IF x <= Head(s) THEN <<x>> \o s
    ELSE <<Head(s)>> \o SortedInsert(x, Tail(s))

\* a sort that was left out: the array as it came
np_sort_omitted(s) == s

RECURSIVE np_sort(_)
np_sort(s) == IF s = <<>> THEN <<>> ELSE SortedInsert(Head(s), np_sort(Tail(s)))

\* np.argmin of a non-empty array: the 0-based index of the first occurrence
\* of the minimum (an ascending scan that replaces only on strictly smaller)
RECURSIVE ArgminScan(_, _, _)
ArgminScan(w, i, best) ==
    IF i > Len(w) THEN best - 1
    ELSE ArgminScan(w, i + 1, IF w[i] < w[best] THEN i ELSE best)

\* an argmin that keeps the last occurrence of the minimum
RECURSIVE ArgminLastScan(_, _, _)
ArgminLastScan(w, i, best) ==
    IF i > Len(w) THEN best - 1
    ELSE ArgminLastScan(w, i + 1, IF w[i] <= w[best] THEN i ELSE best)

np_argmin_last(w) == ArgminLastScan(w, 2, 1)

np_argmin(w) == ArgminScan(w, 2, 1)

\* ----------------------------------------------------------- hdi_of_mcmc
\* the default of the cred_mass parameter, 0.95
DefaultCredMass == <<95, 100>>

\* the increment taken from the mass left outside the interval
CiIdxIncOutside(m, n) == ((m[2] - m[1]) * n) \div m[2]

\* int(np.floor(cred_mass * len(sorted_pts)))
CiIdxInc(m, n) == (m[1] * n) \div m[2]

\* sorted_pts[ci_idx_inc:] - sorted_pts[:n_cis], element-wise (1-based here)
CiWidth(sorted_pts, ci_idx_inc, n_cis) ==
    [i \in 1..n_cis |-> sorted_pts[ci_idx_inc + i] - sorted_pts[i]]

\* the local variables of hdi_of_mcmc after line 63, for a call that gets there
hdi_locals(sv, m) ==
    LET sorted_pts == np_sort(sv)
        ci_idx_inc == CiIdxInc(m, Len(sorted_pts))
        n_cis      == Len(sorted_pts) - ci_idx_inc
        ci_width   == CiWidth(sorted_pts, ci_idx_inc, n_cis)
    IN  [sorted_pts |-> sorted_pts, ci_idx_inc |-> ci_idx_inc, n_cis |-> n_cis,
         ci_width |-> ci_width, min_idx |-> np_argmin(ci_width)]

\* lines 57-66; np.argmin raises ValueError on an empty array
hdi_body(sv, m) ==
    IF Len(sv) - CiIdxInc(m, Len(sv)) <= 0
    THEN Raise("ValueError", "attempt to get argmin of an empty sequence", 63)
    ELSE LET l == hdi_locals(sv, m)
         IN  [kind |-> "return",
              hdi_min |-> l.sorted_pts[l.min_idx + 1],
              hdi_max |-> l.sorted_pts[l.min_idx + l.ci_idx_inc + 1]]

\* hdi_of_mcmc without the assertion of line 56
hdi_of_mcmc_unguarded(sv, m) == hdi_body(sv, m)

hdi_of_mcmc(sv, m) ==
    IF Len(sv) = 0
    THEN Raise("AssertionError", "need points to find HDI", 56)
    ELSE hdi_body(sv, m)

\* ------------------------------------------- calculate_sample_statistics
\* np.mean: the exact fraction sum / n
np_mean(s) == <<np_sum(s), Len(s)>>

Min(s) == CHOOSE x \in {s[i] : i \in 1..Len(s)} : \A j \in 1..Len(s) : x <= s[j]
Max(s) == CHOOSE x \in {s[i] : i \in 1..Len(s)} : \A j \in 1..Len(s) : x >= s[j]

\* scipy.stats.gaussian_kde(sample_vec): refuses a dataset of fewer than two
\* elements (ValueError) and one whose covariance is singular, that is whose
\* values are all equal (LinAlgError)
gaussian_kde(sv) ==
    IF Len(sv) <= 1
    THEN Raise("ValueError", "dataset input should have multiple elements", 76)
    ELSE IF Min(sv) = Max(sv)
    THEN Raise("LinAlgError", "singular matrix", 76)
    ELSE [kind |-> "return"]

\* x[np.argmax(kernel.evaluate(x))]: the density is not computed here; the
\* mode of a sum of Gaussian kernels lies between the smallest and the
\* largest draw, and any value there is a possible result
ModeCandidates(sv) == Min(sv)..Max(sv)

calculate_sample_statistics(sv, mode_val) ==
    LET h == hdi_of_mcmc(sv, DefaultCredMass)
    IN  IF h.kind = "raise" THEN h
        ELSE LET kernel == gaussian_kde(sv)
             IN  IF kernel.kind = "raise" THEN kernel
                 ELSE [kind |-> "return", hdi_min |-> h.hdi_min, hdi_max |-> h.hdi_max,
                       mean |-> np_mean(sv), mode |-> mode_val]

\* ---------------------------------------------------- summarizer machine
Draws == 0..MaxDraw
SampleVecs == SeqsUpTo(Draws, MaxSamples)
CredMasses == {m \in (1..MaxDen) \X (2..MaxDen) : m[1] < m[2]} \cup {DefaultCredMass}

InitSummary ==
    /\ sample_vec \in SampleVecs
    /\ cred_mass = DefaultCredMass
    /\ hdi = NoCall
    /\ locals = NoCall
    /\ stats = NoCall
    /\ data = <<>>
    /\ call = NoCall
    /\ prev_call = NoCall

HdiOfMcmc ==
    \E m \in CredMasses :
        /\ cred_mass' = m
        /\ hdi' = hdi_of_mcmc(sample_vec, m)
        /\ locals' = IF hdi'.kind = "return" THEN hdi_locals(sample_vec, m) ELSE NoCall
        /\ UNCHANGED <<sample_vec, stats, data, call, prev_call>>

CalculateSampleStatistics ==
    \E mode_val \in (IF sample_vec = <<>> THEN {0} ELSE ModeCandidates(sample_vec)) :
        /\ stats' = calculate_sample_statistics(sample_vec, mode_val)
        /\ UNCHANGED <<sample_vec, cred_mass, hdi, locals, data, call, prev_call>>

NextSummary == HdiOfMcmc \/ CalculateSampleStatistics

SpecSummary == InitSummary /\ [][NextSummary]_vars

\* -------------------------------------------------------------- make_model
\* the factor of the prior scales: np.std(y) * 1000 and np.std(y) / 1000
PriorScale == 1000

\* data.keys(), in insertion order
keys(d) == [i \in 1..Len(d) |-> d[i].name]

\* the keys in insertion order, unsorted
sorted_omitted(names) == names

\* sorted(data.keys()): a new list, ascending
RECURSIVE sorted(_)
sorted(names) ==
    IF names = <<>> THEN <<>> ELSE SortedInsert(Head(names), sorted(Tail(names)))

\* data[name]
getitem(d, name) == (CHOOSE i \in 1..Len(d) : d[i].name = name)

\* np.array(data[name]): the array as handed in, [ndim, vals]
np_array(d, name) == d[getitem(d, name)].arr

RECURSIVE SumSquares(_)
SumSquares(s) == IF s = <<>> THEN 0 ELSE Head(s) * Head(s) + SumSquares(Tail(s))

\* np.std(y), kept by its square: the population variance
\* (n * sum(y^2) - sum(y)^2) / n^2; of an empty array nan, the fraction 0/0
np_std(y) == <<Len(y) * SumSquares(y) - np_sum(y) * np_sum(y), Len(y) * Len(y)>>

\* np.std(y) * 1000 and np.std(y) / 1000, on the squares
StdTimes(sd, c) == <<sd[1] * c * c, sd[2]>>
StdOver(sd, c) == <<sd[1], sd[2] * c * c>>

\* pm.StudentT(name, observed=y, nu=nu, mu=mean, lam=std ** (-2))
StudentT(name, y, mean, std) ==
    [name |-> name, dist |-> "StudentT", observed |-> y,
     nu |-> "nu_minus_one", mu |-> mean, lam |-> std]

\* lines 38-52, with both likelihoods on the first array
ModelOneArray(name1, y1, name2, y2, mu_m, mu_scale, sigma_low, sigma_high) ==
    [kind |-> "return",
     free_RVs |-> <<
        [name |-> "group1_mean", dist |-> "Normal", mu |-> mu_m, sd |-> mu_scale],
        [name |-> "group2_mean", dist |-> "Normal", mu |-> mu_m, sd |-> mu_scale],
        [name |-> "group1_std", dist |-> "Uniform", lower |-> sigma_low, upper |-> sigma_high],
        [name |-> "group2_std", dist |-> "Uniform", lower |-> sigma_low, upper |-> sigma_high],
        [name |-> "nu_minus_one", dist |-> "Exponential", lam |-> <<1, 29>>] >>,
     observed_RVs |-> <<
        StudentT(name1, y1.vals, "group1_mean", "group1_std"),
        StudentT(name2, y1.vals, "group2_mean", "group2_std") >>]

\* lines 38-52: the five priors, in the order they are registered, and the
\* two likelihoods
Model(name1, y1, name2, y2, mu_m, mu_scale, sigma_low, sigma_high) ==
    [kind |-> "return",
     free_RVs |-> <<
        [name |-> "group1_mean", dist |-> "Normal", mu |-> mu_m, sd |-> mu_scale],
        [name |-> "group2_mean", dist |-> "Normal", mu |-> mu_m, sd |-> mu_scale],
        [name |-> "group1_std", dist |-> "Uniform", lower |-> sigma_low, upper |-> sigma_high],
        [name |-> "group2_std", dist |-> "Uniform", lower |-> sigma_low, upper |-> sigma_high],
        [name |-> "nu_minus_one", dist |-> "Exponential", lam |-> <<1, 29>>] >>,
     observed_RVs |-> <<
        StudentT(name1, y1.vals, "group1_mean", "group1_std"),
        StudentT(name2, y2.vals, "group2_mean", "group2_std") >>]

\* lines 23-52; unpacking into name1, name2 raises ValueError unless there
\* are exactly two keys
make_model_body(d) ==
    IF Len(d) # 2
    THEN Raise("ValueError", "wrong number of values to unpack", 23)
    ELSE LET names == sorted(keys(d))
             name1 == names[1]
             name2 == names[2]
             y1 == np_array(d, name1)
             y2 == np_array(d, name2)
         IN  IF y1.ndim # 1 THEN Raise("AssertionError", "", 28)
             ELSE IF y2.ndim # 1 THEN Raise("AssertionError", "", 29)
             ELSE LET y == y1.vals \o y2.vals
                      mu_m == np_mean(y)
                      mu_scale == StdTimes(np_std(y), PriorScale)
                      sigma_low == StdOver(np_std(y), PriorScale)
                      sigma_high == StdTimes(np_std(y), PriorScale)
                  IN  Model(name1, y1, name2, y2, mu_m, mu_scale, sigma_low, sigma_high)

\* make_model without the assertion of line 21
make_model_unguarded(d) == make_model_body(d)

make_model(d) ==
    IF Len(d) # 2
    THEN Raise("AssertionError", "There must be exactly two data arrays", 21)
    ELSE make_model_body(d)

\* ------------------------------------------------------- builder machine
GroupNames == {1, 2, 3}
Obs == 0..MaxObs

\* what np.array makes of a group's value: a one-dimensional array of at
\* most n observations, a scalar (ndim 0) or a one-row matrix (ndim 2)
ArraysUpTo(n) ==
    {[ndim |-> 1, vals |-> v] : v \in SeqsUpTo(Obs, n)}
    \cup {[ndim |-> 0, vals |-> <<0>>], [ndim |-> 2, vals |-> <<0>>]}

Arrays == ArraysUpTo(MaxGroupLen)

\* the key sequences of a dict: no key twice
KeySeqs ==
    {ks \in SeqsUpTo(GroupNames, Cardinality(GroupNames)) :
        \A i, j \in 1..Len(ks) : ks[i] = ks[j] => i = j}

\* the dicts with the keys ks, in that insertion order, and values from A
DictsOn(ks, A) ==
    {[i \in 1..Len(ks) |-> [name |-> ks[i], arr |-> arrs[i]]] : arrs \in [1..Len(ks) -> A]}

\* the datasets handed to make_model.  A dict of two groups holds any two
\* arrays; a dict of another size, which line 21 rejects before any array
\* is read, holds arrays of at most one observation.
Datasets ==
    UNION {DictsOn(ks, IF Len(ks) = 2 THEN Arrays ELSE ArraysUpTo(1)) : ks \in KeySeqs}

Reverse(d) == [i \in 1..Len(d) |-> d[Len(d) + 1 - i]]

InitBuild ==
    /\ data \in Datasets
    /\ call = NoCall
    /\ prev_call = NoCall
    /\ sample_vec = <<>>
    /\ cred_mass = DefaultCredMass
    /\ hdi = NoCall
    /\ locals = NoCall
    /\ stats = NoCall

MakeModel ==
    /\ call' = [kind |-> "call", data |-> data, result |-> make_model(data)]
    /\ prev_call' = call
    /\ UNCHANGED <<data, sample_vec, cred_mass, hdi, locals, stats>>

\* the caller builds the same dict again, inserting the groups in the
\* opposite order
Reinsert ==
    /\ Len(data) >= 2
    /\ data' = Reverse(data)
    /\ UNCHANGED <<call, prev_call, sample_vec, cred_mass, hdi, locals, stats>>

NextBuild == MakeModel \/ Reinsert

SpecBuild == InitBuild /\ [][NextBuild]_vars

\* ---------------------------------------------------- builder properties
\* the spec's InputShapeError is a failed assertion of line 21, 28 or 29
InputShapeError(r) ==
    /\ r.kind = "raise"
    /\ r.exc = "AssertionError"
    /\ r.line \in {21, 28, 29}

\* the array the dataset holds for a group name
ArrayOf(d, name) == d[CHOOSE i \in 1..Len(d) : d[i].name = name].arr

NamesOf(d) == {d[i].name : i \in 1..Len(d)}

LeastName(d) == CHOOSE n \in NamesOf(d) : \A o \in NamesOf(d) : n <= o
GreatestName(d) == CHOOSE n \in NamesOf(d) : \A o \in NamesOf(d) : n >= o

\* all observations of the dataset are equal (pooled standard deviation 0)
ConstantValued(d) ==
    /\ \E i \in 1..Len(d) : d[i].arr.vals # <<>>
    /\ \A i, j \in 1..Len(d) :
         \A a \in 1..Len(d[i].arr.vals), b \in 1..Len(d[j].arr.vals) :
            d[i].arr.vals[a] = d[j].arr.vals[b]

OneDimensional(d) == \A i \in 1..Len(d) : d[i].arr.ndim = 1
NonEmpty(d) == \A i \in 1..Len(d) : d[i].arr.vals # <<>>

\* the free variables of a model with the given prior
Priors(m, dist) == {i \in 1..Len(m.free_RVs) : m.free_RVs[i].dist = dist}
PriorNames(m, dist) == {m.free_RVs[i].name : i \in Priors(m, dist)}

\* C5: for a dataset whose number of groups is not two, make_model fails with
\* the assertion of line 21 (the InputShapeError) and returns no model.
C5_NotTwoGroupsFails ==
    (call # NoCall /\ Len(call.data) # 2) =>
        /\ InputShapeError(call.result)
        /\ call.result.line = 21
        /\ call.result.msg = "There must be exactly two data arrays"

C5_Witness ==
    /\ call # NoCall /\ prev_call # NoCall
    /\ Len(call.data) = 3
    /\ call.result.kind = "raise"

\* C6: for a dataset of two groups, make_model fails with an InputShapeError
\* whenever a group's array is not one-dimensional or is empty, and returns a
\* model only when both arrays are one-dimensional and non-empty.
C6_BadArrayFails ==
    (call # NoCall /\ Len(call.data) = 2) =>
        /\ ~(OneDimensional(call.data) /\ NonEmpty(call.data))
              => InputShapeError(call.result)
        /\ call.result.kind = "return"
              => (OneDimensional(call.data) /\ NonEmpty(call.data))

\* C7: for constant-valued data (two non-empty one-dimensional arrays whose
\* pooled standard deviation is 0) make_model fails instead of returning a
\* model whose scale-prior bounds are [0, 0].
C7_ConstantDataFails ==
    (call # NoCall /\ Len(call.data) = 2 /\ OneDimensional(call.data)
       /\ NonEmpty(call.data) /\ ConstantValued(call.data)) =>
        /\ call.result.kind = "raise"

C9_Deterministic ==
    /\ (call # NoCall /\ call.result.kind = "return") =>
          \A i \in 1..2 :
             LET rv == call.result.observed_RVs[i]
             IN  /\ rv.mu = "group1_mean" => rv.name = LeastName(call.data)
                 /\ rv.mu = "group2_mean" => rv.name = GreatestName(call.data)
    /\ (call # NoCall /\ prev_call # NoCall
          /\ {call.data[i] : i \in 1..Len(call.data)}
               = {prev_call.data[i] : i \in 1..Len(prev_call.data)}) =>
          call.result = prev_call.result

\* two builds of the same two groups, inserted in opposite orders
C9_Witness ==
    /\ call # NoCall /\ prev_call # NoCall
    /\ call.result.kind = "return"
    /\ prev_call.result.kind = "return"
    /\ call.data # prev_call.data
    /\ call.data[1].arr # call.data[2].arr
    /\ call.data[1].name > call.data[2].name


\* ------------------------------------------------- summarizer properties
\* m1 <= m2, as fractions
MassLeq(m1, m2) == m1[1] * m2[2] <= m2[1] * m1[2]

Width(h) == h.hdi_max - h.hdi_min

\* how many samples lie in [lo, hi]
CountIn(sv, lo, hi) == Cardinality({i \in 1..Len(sv) : lo <= sv[i] /\ sv[i] <= hi})

Occurrences(sv, v) == Cardinality({i \in 1..Len(sv) : sv[i] = v})

\* s is sv in ascending order
IsAscendingOf(s, sv) ==
    /\ Len(s) = Len(sv)
    /\ \A i \in 1..(Len(s) - 1) : s[i] <= s[i + 1]
    /\ \A v \in Draws : Occurrences(s, v) = Occurrences(sv, v)

\* the spec's EmptySampleError is the failed assertion of line 56
EmptySampleError(r) ==
    /\ r.kind = "raise"
    /\ r.exc = "AssertionError"
    /\ r.msg = "need points to find HDI"
    /\ r.line = 56

\* C1: for a non-empty sample and a credible mass in (0,1), hdi_of_mcmc
\* returns a pair with hdi_min <= hdi_max, and at least floor(m * n) of the
\* n samples lie in [hdi_min, hdi_max].
C1_HdiInvariant ==
    (sample_vec # <<>> /\ hdi # NoCall) =>
        /\ hdi.kind = "return"
        /\ hdi.hdi_min <= hdi.hdi_max
        /\ CountIn(sample_vec, hdi.hdi_min, hdi.hdi_max)
               >= (cred_mass[1] * Len(sample_vec)) \div cred_mass[2]

\* an unsorted sample of several distinct draws, a window of three or more
C1_Witness ==
    /\ hdi.kind = "return"
    /\ Len(sample_vec) = MaxSamples
    /\ sample_vec[1] > sample_vec[2]
    /\ (cred_mass[1] * Len(sample_vec)) \div cred_mass[2] >= 2
    /\ hdi.hdi_min < hdi.hdi_max
    /\ CountIn(sample_vec, hdi.hdi_min, hdi.hdi_max) < Len(sample_vec)

\* C2: for a fixed non-empty sample, the width hdi_max - hdi_min returned
\* for a credible mass is never smaller than the width returned for any
\* smaller credible mass (and never larger than for any larger one).
C2_HdiMonotone ==
    (sample_vec # <<>> /\ hdi.kind = "return") =>
        \A m2 \in CredMasses :
            LET h2 == hdi_of_mcmc(sample_vec, m2)
            IN  /\ MassLeq(cred_mass, m2) => Width(hdi) <= Width(h2)
                /\ MassLeq(m2, cred_mass) => Width(h2) <= Width(hdi)

\* a call whose width lies strictly between those of a smaller and a larger mass
C2_Witness ==
    /\ hdi.kind = "return"
    /\ \E m1, m2 \in CredMasses :
        /\ MassLeq(m1, cred_mass) /\ MassLeq(cred_mass, m2)
        /\ Width(hdi_of_mcmc(sample_vec, m1)) < Width(hdi)
        /\ Width(hdi) < Width(hdi_of_mcmc(sample_vec, m2))

\* C3: on an empty sample, hdi_of_mcmc and calculate_sample_statistics fail
\* with the assertion of line 56 (the EmptySampleError), the first statement
\* either of them executes; no statistics record is returned.
C3_EmptySampleFails ==
    sample_vec = <<>> =>
        /\ hdi # NoCall => EmptySampleError(hdi)
        /\ stats # NoCall => EmptySampleError(stats)

C3_Witness ==
    /\ sample_vec = <<>>
    /\ hdi.kind = "raise"
    /\ stats.kind = "raise"

\* C4: summarizing a sample of exactly one value v does not raise: it returns
\* a record with hdi_min = hdi_max = v and mean = v.
C4_SinglePointSummarized ==
    (Len(sample_vec) = 1 /\ stats # NoCall) =>
        /\ stats.kind = "return"
        /\ stats.hdi_min = sample_vec[1]
        /\ stats.hdi_max = sample_vec[1]
        /\ stats.mean[1] = sample_vec[1] * stats.mean[2]

\* C10: with s the sample in ascending order, n its length, k = floor(m * n)
\* and w = n - k, hdi_of_mcmc returns (s[i], s[i + k]) for the lowest index i
\* of [0, w) that minimizes s[i + k] - s[i].
C10_NarrowestFirstWindow ==
    hdi.kind = "return" =>
        LET s == locals.sorted_pts
            n == Len(sample_vec)
            k == (cred_mass[1] * n) \div cred_mass[2]
            w == n - k
            i == locals.min_idx
            WidthAt(j) == s[j + k + 1] - s[j + 1]
        IN  /\ IsAscendingOf(s, sample_vec)
            /\ locals.ci_idx_inc = k
            /\ locals.n_cis = w
            /\ i \in 0..(w - 1)
            /\ \A j \in 0..(w - 1) : WidthAt(j) >= WidthAt(i)
            /\ \A j \in 0..(i - 1) : WidthAt(j) > WidthAt(i)
            /\ hdi.hdi_min = s[i + 1]
            /\ hdi.hdi_max = s[i + k + 1]

\* two windows are equally narrow, a wider one precedes them, and the first
\* of the two was taken
C10_Witness ==
    /\ hdi.kind = "return"
    /\ locals.min_idx > 0
    /\ \E j \in (locals.min_idx + 1)..(locals.n_cis - 1) :
           locals.ci_width[j + 1] = locals.ci_width[locals.min_idx + 1]
    /\ locals.ci_idx_inc >= 1

====
